---- MODULE Spec2Model ----
(***************************************************************************)
(* Model of the authentication service: the session middleware            *)
(* (src/src/middleware/auth.js), the user controller                       *)
(* (src/src/controllers/userController.js), the profile model              *)
(* (src/src/models/userModel.js) and the route table (src/unnamed/part_002)*)
(*                                                                         *)
(* Every handler is an async function: it runs without interruption up to  *)
(* its next await, so one action models one such segment, and requests     *)
(* interleave only at awaits.  The identity provider (firebase auth), the  *)
(* document store (firestore) and the mail sender are external; each call  *)
(* to them either succeeds or fails, chosen nondeterministically.          *)
(*                                                                         *)
(* Time is counted in hours.  Uids and emails are numbers; an identity is  *)
(* created with the uid of its first email, and email 0 is registered by   *)
(* nobody at the start.  A security token is a number >= 1; 0 stands for   *)
(* null, undefined and the empty string.                                   *)
(***************************************************************************)
EXTENDS Naturals, Integers, Sequences, FiniteSets, TLC

\* ---------------------------------------------------------------- bounds
MaxUsers == 2
MaxTokens == 2

\* ------------------------------------------------------ program constants
\* 24 * 60 * 60 * 1000 ms, in hours
VerifyTTL == 24
\* 3600000 ms, in hours
ResetTTL == 1

Users == 1..MaxUsers
Emails == 0..MaxUsers
Tokens == 1..MaxTokens
Reqs == {"r1", "r2"}
Roles == {"admin", "doctor", "patient"}
\* the instants the clock is observed at: the start, and the expiry of a reset
\* token and of a verification token issued at the start or one hour later
ClockPoints == {0, ResetTTL, VerifyTTL, VerifyTTL + ResetTTL}

\* the password every identity is created with, and the one a request sets
OldPassword == "p-old"
NewPassword == "p-new"

\* ------------------------------------------------------------ store values
\* A firestore field value that holds an expiry: absent/null, a number
\* (Date.now() + ttl) or a Timestamp (a JS Date is stored as a Timestamp).
NoExpiry == [kind |-> "null", v |-> 0]
NumberExpiry(t) == [kind |-> "number", v |-> t]
TimestampExpiry(t) == [kind |-> "timestamp", v |-> t]

NoDoc == [exists |-> FALSE, uid |-> 0, role |-> "", status |-> "",
          deletedAt |-> FALSE,
          emailVerified |-> FALSE,
          emailVerificationToken |-> 0, emailVerificationExpires |-> NoExpiry,
          resetToken |-> 0, resetTokenExpiry |-> NoExpiry]

NoIdentity == [exists |-> FALSE, email |-> 0, password |-> "", emailVerified |-> FALSE]

\* now        the wall clock (Date.now()), in hours
\* authUsers  the identity provider's records, by uid
\* users      the 'users' collection, by document id
\* reqs       the requests in flight and their responses
\* nextToken  the next value generateToken() returns
\* issued     history: for each security token, whom it was issued to and how
\* consumed   history: the tokens a request has answered success with
VARIABLES now, authUsers, users, reqs, nextToken, issued, consumed

vars == <<now, authUsers, users, reqs, nextToken, issued, consumed>>

\* ------------------------------------------------------------ requests
\* req.user before isAuthenticated has set it
NoUser == [id |-> 0]
NoClaims == [uid |-> 0, email |-> 0, email_verified |-> FALSE]

\* req.params: the named parameters of the matched route; 0 is undefined
ParamNames == {"id", "userId"}
NoParams == [n \in ParamNames |-> 0]

\* A request slot: the handler that runs in it, the await it is suspended at
\* (pc), its inputs and locals, and the response once it has answered.
Idle == [op |-> "idle", pc |-> "idle",
         token |-> 0, expiry |-> 0, target |-> 0, email |-> 0, password |-> "",
         bodyPassword |-> "", currentPassword |-> "",
         role |-> "", setStatus |-> "",
         doc |-> 0, uid |-> 0,
         route |-> "", header |-> <<"absent">>, cred |-> "", claims |-> NoClaims,
         user |-> NoUser, nextCalled |-> FALSE,
         params |-> NoParams, gate |-> "", roles |-> {}, idParam |-> "",
         listed |-> <<>>, lookups |-> <<>>, body |-> <<>>,
         status |-> 0, code |-> "", payload |-> "",
         matched |-> FALSE, effect |-> FALSE, fault |-> FALSE, late |-> FALSE,
         calledAuth |-> FALSE, calledStore |-> FALSE, calledMail |-> FALSE]

Free(r) == reqs[r].pc = "idle"

\* no response is waiting to be written out
Quiet == \A r \in Reqs : reqs[r].pc # "done"

\* the response has left the service: the slot is free again
Collect(r) ==
    /\ reqs[r].pc = "done"
    /\ reqs' = [reqs EXCEPT ![r] = Idle]
    /\ UNCHANGED <<now, authUsers, users, nextToken, issued, consumed>>

\* res.status(s).json({..., code: c}): the handler has answered
Respond(q, s, c) == [q EXCEPT !.pc = "done", !.status = s, !.code = c]

\* ------------------------------------------------------------ firestore
\* .where(field, '>', Date.now()): an inequality filter matches only values of
\* the operand's type, so a Timestamp field never matches a number operand.
\* a variant of the filter that does not look at the clock
FsGreater_anyNumber(field, n) == field.kind = "number"

FsGreater(field, n) == field.kind = "number" /\ field.v > n

\* a variant of the query without the expiry filter
ResetMatches_tokenOnly(token, t) ==
    {d \in Users : users[d].exists /\ users[d].resetToken = token}

\* .where('resetToken', '==', token).where('resetTokenExpiry', '>', Date.now())
ResetMatches(token, t) ==
    {d \in Users : /\ users[d].exists
                   /\ users[d].resetToken = token
                   /\ FsGreater(users[d].resetTokenExpiry, t)}

\* .where('emailVerificationToken', '==', token)
\* .where('emailVerificationExpires', '>', Date.now())
VerifyMatches(token, t) ==
    {d \in Users : /\ users[d].exists
                   /\ users[d].emailVerificationToken = token
                   /\ FsGreater(users[d].emailVerificationExpires, t)}

\* .limit(1).get() then docs[0]: the first match in the query's order, which is
\* the inequality field ascending, then the document id
FirstDoc(S, f) ==
    CHOOSE d \in S : \A e \in S : f[d].v < f[e].v \/ (f[d].v = f[e].v /\ d <= e)

ResetExpiryOf == [d \in Users |-> users[d].resetTokenExpiry]
VerifyExpiryOf == [d \in Users |-> users[d].emailVerificationExpires]

\* a variant that leaves the token in place after the password change
ClearResetToken_keep(doc) == doc

\* a variant that nulls the token and leaves its expiry
ClearResetToken_tokenOnly(doc) == [doc EXCEPT !.resetToken = 0]

\* userDoc.ref.update({ resetToken: null, resetTokenExpiry: null })
ClearResetToken(doc) ==
    [doc EXCEPT !.resetToken = 0, !.resetTokenExpiry = NoExpiry]

\* userDoc.ref.update({ emailVerified: true, emailVerificationToken: null,
\*                      emailVerificationExpires: null })
ClearVerificationToken(doc) ==
    [doc EXCEPT !.emailVerified = TRUE, !.emailVerificationToken = 0,
                !.emailVerificationExpires = NoExpiry]

\* a variant that keeps a reset token the document already holds
SetResetToken_keepFirst(doc, token, expiry) ==
    IF doc.resetToken # 0 THEN doc
    ELSE [doc EXCEPT !.resetToken = token, !.resetTokenExpiry = NumberExpiry(expiry)]

\* .update({ resetToken, resetTokenExpiry })
SetResetToken(doc, token, expiry) ==
    [doc EXCEPT !.resetToken = token, !.resetTokenExpiry = NumberExpiry(expiry)]

\* ------------------------------------------------------------ the clock
\* An hour passes between requests: a request takes far less than one.
Tick ==
    /\ Quiet
    /\ \A r \in Reqs : reqs[r].pc = "idle"
    /\ \E t \in ClockPoints : t > now /\ now' = t
    /\ UNCHANGED <<authUsers, users, reqs, nextToken, issued, consumed>>

NoIssue == [owner |-> 0, purpose |-> "", expiry |-> 0, by |-> ""]

\* a variant that returns the value of the call before once more
generateToken_repeat == IF nextToken > 1 THEN nextToken - 1 ELSE nextToken

\* generateToken(): crypto.randomBytes(32).toString('hex'), 256 random bits,
\* modelled as a value never returned before
generateToken == nextToken

\* ------------------------------------------------ requestPasswordReset
\* tokens that requests suspended before generateToken() will still draw
Pending ==
    Cardinality({x \in Reqs :
        \/ reqs[x].pc \in {"pr_lookup", "cu_auth", "lc_auth", "lc_claims"}
        \/ reqs[x].pc \in {"ia_verify", "ia_fetch"} /\ reqs[x].route = "createUser"})

requestPasswordReset_begin(r, email) ==
    /\ Quiet
    /\ Free(r)
    /\ nextToken + Pending <= MaxTokens
    /\ reqs' = [reqs EXCEPT ![r] =
          [Idle EXCEPT !.op = "requestPasswordReset", !.pc = "pr_lookup",
                       !.target = email]]
    /\ UNCHANGED <<now, authUsers, users, nextToken, issued, consumed>>

GenericResetMessage == "If an account with that email exists, a password reset link has been sent"

\* auth.getUserByEmail(email): the identity that has this email, if any
HasIdentity(email) == \E u \in Users : authUsers[u].exists /\ authUsers[u].email = email
IdentityOf(email) == CHOOSE u \in Users : authUsers[u].exists /\ authUsers[u].email = email

\* a variant that issues a token whether or not an identity has the email
requestPasswordReset_lookup_anyEmail(r) ==
    LET q == reqs[r] IN
    /\ Quiet
    /\ q.pc = "pr_lookup"
    /\ reqs' = [reqs EXCEPT ![r] =
          [q EXCEPT !.pc = "pr_update", !.calledAuth = TRUE,
                    !.matched = HasIdentity(q.target),
                    !.doc = IF HasIdentity(q.target) THEN IdentityOf(q.target)
                            ELSE CHOOSE u \in Users : TRUE,
                    !.token = generateToken, !.expiry = now + ResetTTL]]
    /\ nextToken' = nextToken + 1
    /\ UNCHANGED <<now, authUsers, users, issued, consumed>>

\* const user = await auth.getUserByEmail(email).catch(() => null)
requestPasswordReset_lookup(r) ==
    LET q == reqs[r] IN
    /\ Quiet
    /\ q.pc = "pr_lookup"
    /\ \/ \* no identity has this email: null
          /\ ~ HasIdentity(q.target)
          /\ reqs' = [reqs EXCEPT ![r] =
                Respond([q EXCEPT !.calledAuth = TRUE], 200, GenericResetMessage)]
          /\ UNCHANGED nextToken
       \/ \* the lookup rejects for another reason: null as well
          /\ HasIdentity(q.target)
          /\ reqs' = [reqs EXCEPT ![r] =
                Respond([q EXCEPT !.calledAuth = TRUE, !.fault = TRUE],
                        200, GenericResetMessage)]
          /\ UNCHANGED nextToken
       \/ /\ HasIdentity(q.target)
          /\ reqs' = [reqs EXCEPT ![r] =
                [q EXCEPT !.pc = "pr_update", !.calledAuth = TRUE, !.matched = TRUE,
                          !.doc = IdentityOf(q.target),
                          !.token = generateToken, !.expiry = now + ResetTTL]]
          /\ nextToken' = nextToken + 1
    /\ UNCHANGED <<now, authUsers, users, issued, consumed>>

\* await db.collection('users').doc(user.uid).update({ resetToken, resetTokenExpiry })
requestPasswordReset_update(r) ==
    LET q == reqs[r] IN
    /\ Quiet
    /\ q.pc = "pr_update"
    /\ \/ \* update() of a missing document rejects; so does a store outage
          /\ reqs' = [reqs EXCEPT ![r] =
                Respond([q EXCEPT !.calledStore = TRUE,
                                  !.fault = users[q.doc].exists],
                        500, "Error processing password reset request")]
          /\ UNCHANGED <<users, issued>>
       \/ /\ users[q.doc].exists
          /\ users' = [users EXCEPT ![q.doc] = SetResetToken(@, q.token, q.expiry)]
          /\ issued' = [issued EXCEPT ![q.token] =
                [owner |-> q.doc, purpose |-> "reset", expiry |-> q.expiry,
                 by |-> "requestPasswordReset"]]
          /\ reqs' = [reqs EXCEPT ![r] =
                [q EXCEPT !.pc = "pr_email", !.calledStore = TRUE, !.effect = TRUE]]
    /\ UNCHANGED <<now, authUsers, nextToken, consumed>>

\* await emailService.sendPasswordResetEmail(...) inside its own try/catch
requestPasswordReset_email(r) ==
    LET q == reqs[r] IN
    /\ Quiet
    /\ q.pc = "pr_email"
    /\ \/ reqs' = [reqs EXCEPT ![r] =
             Respond([q EXCEPT !.calledMail = TRUE], 200, GenericResetMessage)]
       \/ reqs' = [reqs EXCEPT ![r] =
             Respond([q EXCEPT !.calledMail = TRUE, !.fault = TRUE],
                     500, "Error sending password reset email")]
    /\ UNCHANGED <<now, authUsers, users, nextToken, issued, consumed>>

\* ------------------------------------------------------- resetPassword
\* body('password') of the route: at least 8 characters with a digit, an
\* upper-case letter and a special character; "" is a body without the field
StrongPassword == "P4ss-word"
BodyPasswords == {"", StrongPassword}

\* validationResult(req) of POST /auth/reset-password is not empty:
\* body('token').isString().notEmpty() and passwordValidation, which reads
\* body('password')
ValidationErrors(token, password, newPassword) ==
    token = 0 \/ password # StrongPassword

\* the request arrives with body {token, password, newPassword}: validate,
\* then the handler up to its first await
resetPassword_begin(r, token, password, newPassword) ==
    /\ Quiet
    /\ Free(r)
    /\ reqs' = [reqs EXCEPT ![r] =
          LET q == [Idle EXCEPT !.op = "resetPassword", !.token = token,
                                !.bodyPassword = password,
                                !.password = newPassword,
                                !.late = token \in consumed] IN
          IF ValidationErrors(token, password, newPassword)
          THEN Respond(q, 400, "Error de validación")
          ELSE IF token = 0 \/ newPassword = ""
          THEN Respond(q, 400, "Token and new password are required")
          ELSE [q EXCEPT !.pc = "rp_query"]]
    /\ UNCHANGED <<now, authUsers, users, nextToken, issued, consumed>>

\* const usersSnapshot = await db.collection('users').where(...).limit(1).get()
resetPassword_query(r) ==
    LET q == reqs[r]
        found == ResetMatches(q.token, now)
        d == FirstDoc(found, ResetExpiryOf) IN
    /\ Quiet
    /\ q.pc = "rp_query"
    /\ \/ reqs' = [reqs EXCEPT ![r] =
             Respond([q EXCEPT !.calledStore = TRUE, !.fault = TRUE],
                     500, "Error resetting password")]
       \/ /\ found = {}
          /\ reqs' = [reqs EXCEPT ![r] =
                Respond([q EXCEPT !.calledStore = TRUE], 400, "Invalid or expired token")]
       \/ /\ found # {}
          /\ reqs' = [reqs EXCEPT ![r] =
                [q EXCEPT !.pc = "rp_auth", !.calledStore = TRUE, !.matched = TRUE,
                          !.doc = d, !.uid = users[d].uid]]
    /\ UNCHANGED <<now, authUsers, users, nextToken, issued, consumed>>

\* auth.updateUser(uid, ...) rejects a uid that is not a non-empty string
\* (userData.uid is undefined when the document has no uid field) and a uid
\* that names no identity
UpdatableIdentity(uid) == uid \in Users /\ authUsers[uid].exists

\* a variant that nulls the token fields before the provider update, so that
\* a failed update leaves them nulled
resetPassword_auth_clearFirst(r) ==
    LET q == reqs[r] IN
    /\ Quiet
    /\ q.pc = "rp_auth"
    /\ users' = [users EXCEPT ![q.doc] = ClearResetToken(@)]
    /\ \/ /\ reqs' = [reqs EXCEPT ![r] =
                Respond([q EXCEPT !.calledAuth = TRUE, !.fault = UpdatableIdentity(q.uid)],
                        500, "Error resetting password")]
          /\ UNCHANGED authUsers
       \/ /\ UpdatableIdentity(q.uid)
          /\ authUsers' = [authUsers EXCEPT ![q.uid].password = q.password]
          /\ reqs' = [reqs EXCEPT ![r] =
                [q EXCEPT !.pc = "rp_clear", !.calledAuth = TRUE, !.effect = TRUE]]
    /\ UNCHANGED <<now, nextToken, issued, consumed>>

\* await auth.updateUser(userData.uid, { password: newPassword })
resetPassword_auth(r) ==
    LET q == reqs[r] IN
    /\ Quiet
    /\ q.pc = "rp_auth"
    /\ \/ /\ ~ UpdatableIdentity(q.uid)
          /\ reqs' = [reqs EXCEPT ![r] =
                Respond([q EXCEPT !.calledAuth = TRUE], 500, "Error resetting password")]
          /\ UNCHANGED authUsers
       \/ /\ UpdatableIdentity(q.uid)
          /\ reqs' = [reqs EXCEPT ![r] =
                Respond([q EXCEPT !.calledAuth = TRUE, !.fault = TRUE],
                        500, "Error resetting password")]
          /\ UNCHANGED authUsers
       \/ /\ UpdatableIdentity(q.uid)
          /\ authUsers' = [authUsers EXCEPT ![q.uid].password = q.password]
          /\ reqs' = [reqs EXCEPT ![r] =
                [q EXCEPT !.pc = "rp_clear", !.calledAuth = TRUE, !.effect = TRUE]]
    /\ UNCHANGED <<now, users, nextToken, issued, consumed>>

\* await userDoc.ref.update({ resetToken: null, resetTokenExpiry: null })
resetPassword_clear(r) ==
    LET q == reqs[r] IN
    /\ Quiet
    /\ q.pc = "rp_clear"
    /\ \/ /\ reqs' = [reqs EXCEPT ![r] =
                Respond([q EXCEPT !.fault = TRUE], 500, "Error resetting password")]
          /\ UNCHANGED <<users, consumed>>
       \/ /\ users' = [users EXCEPT ![q.doc] = ClearResetToken(@)]
          /\ consumed' = consumed \cup {q.token}
          /\ reqs' = [reqs EXCEPT ![r] =
                Respond(q, 200, "Password has been reset successfully")]
    /\ UNCHANGED <<now, authUsers, nextToken, issued>>

\* --------------------------------------------------------- verifyEmail
verifyEmail_begin(r, token) ==
    /\ Quiet
    /\ Free(r)
    /\ reqs' = [reqs EXCEPT ![r] =
          LET q == [Idle EXCEPT !.op = "verifyEmail", !.token = token,
                                !.late = token \in consumed] IN
          IF token = 0
          THEN Respond(q, 400, "Verification token is required")
          ELSE [q EXCEPT !.pc = "ve_query"]]
    /\ UNCHANGED <<now, authUsers, users, nextToken, issued, consumed>>

\* const usersSnapshot = await db.collection('users').where(...).limit(1).get()
verifyEmail_query(r) ==
    LET q == reqs[r]
        found == VerifyMatches(q.token, now)
        d == FirstDoc(found, VerifyExpiryOf) IN
    /\ Quiet
    /\ q.pc = "ve_query"
    /\ \/ reqs' = [reqs EXCEPT ![r] =
             Respond([q EXCEPT !.calledStore = TRUE, !.fault = TRUE],
                     500, "Error verifying email")]
       \/ /\ found = {}
          /\ reqs' = [reqs EXCEPT ![r] =
                Respond([q EXCEPT !.calledStore = TRUE], 400,
                        "Invalid or expired verification token")]
       \/ /\ found # {}
          /\ reqs' = [reqs EXCEPT ![r] =
                [q EXCEPT !.pc = "ve_auth", !.calledStore = TRUE, !.matched = TRUE,
                          !.doc = d, !.uid = users[d].uid]]
    /\ UNCHANGED <<now, authUsers, users, nextToken, issued, consumed>>

\* a variant that nulls the token fields first and updates the provider after
verifyEmail_auth_clearFirst(r) ==
    LET q == reqs[r] IN
    /\ Quiet
    /\ q.pc = "ve_auth"
    /\ users' = [users EXCEPT ![q.doc] = ClearVerificationToken(@)]
    /\ \/ /\ reqs' = [reqs EXCEPT ![r] =
                Respond([q EXCEPT !.calledAuth = TRUE, !.fault = UpdatableIdentity(q.uid)],
                        500, "Error verifying email")]
          /\ UNCHANGED authUsers
       \/ /\ UpdatableIdentity(q.uid)
          /\ authUsers' = [authUsers EXCEPT ![q.uid].emailVerified = TRUE]
          /\ reqs' = [reqs EXCEPT ![r] =
                [q EXCEPT !.pc = "ve_clear", !.calledAuth = TRUE, !.effect = TRUE]]
    /\ UNCHANGED <<now, nextToken, issued, consumed>>

\* await auth.updateUser(userData.uid, { emailVerified: true })
verifyEmail_auth(r) ==
    LET q == reqs[r] IN
    /\ Quiet
    /\ q.pc = "ve_auth"
    /\ \/ /\ ~ UpdatableIdentity(q.uid)
          /\ reqs' = [reqs EXCEPT ![r] =
                Respond([q EXCEPT !.calledAuth = TRUE], 500, "Error verifying email")]
          /\ UNCHANGED authUsers
       \/ /\ UpdatableIdentity(q.uid)
          /\ reqs' = [reqs EXCEPT ![r] =
                Respond([q EXCEPT !.calledAuth = TRUE, !.fault = TRUE],
                        500, "Error verifying email")]
          /\ UNCHANGED authUsers
       \/ /\ UpdatableIdentity(q.uid)
          /\ authUsers' = [authUsers EXCEPT ![q.uid].emailVerified = TRUE]
          /\ reqs' = [reqs EXCEPT ![r] =
                [q EXCEPT !.pc = "ve_clear", !.calledAuth = TRUE, !.effect = TRUE]]
    /\ UNCHANGED <<now, users, nextToken, issued, consumed>>

\* await userDoc.ref.update({ emailVerified: true, emailVerificationToken: null, ... })
verifyEmail_clear(r) ==
    LET q == reqs[r] IN
    /\ Quiet
    /\ q.pc = "ve_clear"
    /\ \/ /\ reqs' = [reqs EXCEPT ![r] =
                Respond([q EXCEPT !.fault = TRUE], 500, "Error verifying email")]
          /\ UNCHANGED <<users, consumed>>
       \/ /\ users' = [users EXCEPT ![q.doc] = ClearVerificationToken(@)]
          /\ consumed' = consumed \cup {q.token}
          /\ reqs' = [reqs EXCEPT ![r] =
                Respond(q, 200, "Email verified successfully")]
    /\ UNCHANGED <<now, authUsers, nextToken, issued>>

\* ---------------------------------------------------------- createUser
\* the identity auth.createUser() makes: emailVerified: false, disabled: false
NewIdentity(email) ==
    [exists |-> TRUE, email |-> email, password |-> OldPassword, emailVerified |-> FALSE]

\* auth.createUser() rejects an email that is in use.  A uid is never issued
\* twice: the new identity gets the uid numbered as its email, which must be
\* one that no identity and no document has had.
CanRegister(email) ==
    /\ email \in Users
    /\ ~ HasIdentity(email)
    /\ authUsers[email] = NoIdentity
    /\ ~ users[email].exists

\* a variant that gives the verification token the lifetime of a reset token
NewProfile_resetLifetime(role, token, expiry) ==
    [exists |-> TRUE, uid |-> 0, role |-> role, status |-> "active",
     deletedAt |-> FALSE, emailVerified |-> FALSE,
     emailVerificationToken |-> token,
     emailVerificationExpires |-> TimestampExpiry(expiry - VerifyTTL + ResetTTL),
     resetToken |-> 0, resetTokenExpiry |-> NoExpiry]

\* userData of createUser, as createOrUpdateUser() stores it for a new
\* document: no uid field, the expiry a Date (a firestore Timestamp)
NewProfile(role, token, expiry) ==
    [exists |-> TRUE, uid |-> 0, role |-> role, status |-> "active",
     deletedAt |-> FALSE, emailVerified |-> FALSE,
     emailVerificationToken |-> token,
     emailVerificationExpires |-> TimestampExpiry(expiry),
     resetToken |-> 0, resetTokenExpiry |-> NoExpiry]

\* the handler up to its first await: validationResult, the role check
createUser_enter(q) ==
    IF q.role \in Roles
    THEN [q EXCEPT !.pc = "cu_auth"]
    ELSE Respond(q, 400, "Rol invalido")

\* const userRecord = await auth.createUser({...}); then the token and its expiry
createUser_auth(r) ==
    LET q == reqs[r] IN
    /\ Quiet
    /\ q.pc = "cu_auth"
    /\ \/ /\ reqs' = [reqs EXCEPT ![r] =
                Respond([q EXCEPT !.calledAuth = TRUE, !.fault = CanRegister(q.target)],
                        400, "error.message")]
          /\ UNCHANGED <<authUsers, nextToken>>
       \/ /\ CanRegister(q.target)
          /\ authUsers' = [authUsers EXCEPT ![q.target] = NewIdentity(q.target)]
          /\ nextToken' = nextToken + 1
          /\ reqs' = [reqs EXCEPT ![r] =
                [q EXCEPT !.pc = "cu_save", !.calledAuth = TRUE, !.doc = q.target,
                          !.token = generateToken, !.expiry = now + VerifyTTL]]
    /\ UNCHANGED <<now, users, issued, consumed>>

\* const savedUser = await UserModel.createOrUpdateUser(userRecord.uid, userData)
createUser_save(r) ==
    LET q == reqs[r] IN
    /\ Quiet
    /\ q.pc = "cu_save"
    /\ \/ /\ reqs' = [reqs EXCEPT ![r] =
                Respond([q EXCEPT !.calledStore = TRUE, !.fault = TRUE],
                        400, "Error al guardar los datos del usuario")]
          /\ UNCHANGED <<users, issued>>
       \/ /\ users' = [users EXCEPT ![q.doc] = NewProfile(q.role, q.token, q.expiry)]
          /\ issued' = [issued EXCEPT ![q.token] =
                [owner |-> q.doc, purpose |-> "verify", expiry |-> q.expiry,
                 by |-> "createUser"]]
          /\ reqs' = [reqs EXCEPT ![r] =
                [q EXCEPT !.pc = "cu_claims", !.calledStore = TRUE, !.effect = TRUE]]
    /\ UNCHANGED <<now, authUsers, nextToken, consumed>>

\* await auth.setCustomUserClaims(...); the mails after it are sent inside
\* try/catch blocks that swallow every failure
createUser_claims(r) ==
    LET q == reqs[r] IN
    /\ Quiet
    /\ q.pc = "cu_claims"
    /\ \/ reqs' = [reqs EXCEPT ![r] =
             Respond([q EXCEPT !.fault = TRUE], 400, "error.message")]
       \/ reqs' = [reqs EXCEPT ![r] =
             Respond([q EXCEPT !.calledMail = TRUE], 201, "user created successfully")]
    /\ UNCHANGED <<now, authUsers, users, nextToken, issued, consumed>>

\* ------------------------------------ createUser of the earlier controller
\* userProfile of the earlier createUser: a uid field, no status field, the
\* expiry a number (Date.now() + 24h)
LegacyProfile(uid, role, token, expiry) ==
    [exists |-> TRUE, uid |-> uid, role |-> role, status |-> "undefined",
     deletedAt |-> FALSE, emailVerified |-> FALSE,
     emailVerificationToken |-> token,
     emailVerificationExpires |-> NumberExpiry(expiry),
     resetToken |-> 0, resetTokenExpiry |-> NoExpiry]

legacyCreateUser_begin(r, email, role) ==
    /\ Quiet
    /\ Free(r)
    /\ nextToken + Pending <= MaxTokens
    /\ reqs' = [reqs EXCEPT ![r] =
          LET q == [Idle EXCEPT !.op = "legacyCreateUser", !.target = email,
                                !.role = role] IN
          IF role \in Roles THEN [q EXCEPT !.pc = "lc_auth"]
                             ELSE Respond(q, 400, "Rol invalido")]
    /\ UNCHANGED <<now, authUsers, users, nextToken, issued, consumed>>

\* const userRecord = await auth.createUser({...})
legacyCreateUser_auth(r) ==
    LET q == reqs[r] IN
    /\ Quiet
    /\ q.pc = "lc_auth"
    /\ \/ /\ reqs' = [reqs EXCEPT ![r] =
                Respond([q EXCEPT !.calledAuth = TRUE, !.fault = CanRegister(q.target)],
                        400, "error.message")]
          /\ UNCHANGED authUsers
       \/ /\ CanRegister(q.target)
          /\ authUsers' = [authUsers EXCEPT ![q.target] = NewIdentity(q.target)]
          /\ reqs' = [reqs EXCEPT ![r] =
                [q EXCEPT !.pc = "lc_claims", !.calledAuth = TRUE, !.doc = q.target]]
    /\ UNCHANGED <<now, users, nextToken, issued, consumed>>

\* await auth.setCustomUserClaims(...); await auth.getUser(...); then the
\* token and its expiry
legacyCreateUser_claims(r) ==
    LET q == reqs[r] IN
    /\ Quiet
    /\ q.pc = "lc_claims"
    /\ \/ /\ reqs' = [reqs EXCEPT ![r] =
                Respond([q EXCEPT !.fault = TRUE], 400, "error.message")]
          /\ UNCHANGED nextToken
       \/ /\ nextToken' = nextToken + 1
          /\ reqs' = [reqs EXCEPT ![r] =
                [q EXCEPT !.pc = "lc_save", !.token = generateToken,
                          !.expiry = now + VerifyTTL]]
    /\ UNCHANGED <<now, authUsers, users, issued, consumed>>

\* await db.collection('users').doc(userRecord.uid).set(userProfile); the
\* mails after it are sent inside a try/catch that swallows every failure
legacyCreateUser_save(r) ==
    LET q == reqs[r] IN
    /\ Quiet
    /\ q.pc = "lc_save"
    /\ \/ /\ reqs' = [reqs EXCEPT ![r] =
                Respond([q EXCEPT !.calledStore = TRUE, !.fault = TRUE],
                        400, "error.message")]
          /\ UNCHANGED <<users, issued>>
       \/ /\ users' = [users EXCEPT ![q.doc] =
                LegacyProfile(q.doc, q.role, q.token, q.expiry)]
          /\ issued' = [issued EXCEPT ![q.token] =
                [owner |-> q.doc, purpose |-> "verify", expiry |-> q.expiry,
                 by |-> "legacyCreateUser"]]
          /\ reqs' = [reqs EXCEPT ![r] =
                Respond([q EXCEPT !.calledStore = TRUE, !.effect = TRUE,
                                  !.calledMail = TRUE],
                        201, "user created successfully")]
    /\ UNCHANGED <<now, authUsers, nextToken, consumed>>

\* ---------------------------------------------------------- deleteUser
\* the handler up to its first await
deleteUser_enter(q) == [q EXCEPT !.pc = "du_get"]

\* const user = await UserModel.getUserById(id)
deleteUser_get(r) ==
    LET q == reqs[r] IN
    /\ Quiet
    /\ q.pc = "du_get"
    /\ \/ reqs' = [reqs EXCEPT ![r] =
             Respond([q EXCEPT !.fault = TRUE], 500, "Error al eliminar el usuario")]
       \/ /\ ~ users[q.target].exists
          /\ reqs' = [reqs EXCEPT ![r] = Respond(q, 404, "Usuario no encontrado")]
       \/ /\ users[q.target].exists
          /\ reqs' = [reqs EXCEPT ![r] = [q EXCEPT !.pc = "du_auth"]]
    /\ UNCHANGED <<now, authUsers, users, nextToken, issued, consumed>>

\* await auth.deleteUser(id)
deleteUser_auth(r) ==
    LET q == reqs[r] IN
    /\ Quiet
    /\ q.pc = "du_auth"
    /\ \/ /\ ~ authUsers[q.target].exists
          /\ reqs' = [reqs EXCEPT ![r] = Respond(q, 404, "Usuario no encontrado")]
          /\ UNCHANGED authUsers
       \/ /\ authUsers[q.target].exists
          /\ reqs' = [reqs EXCEPT ![r] =
                Respond([q EXCEPT !.fault = TRUE], 500, "Error al eliminar el usuario")]
          /\ UNCHANGED authUsers
       \/ /\ authUsers[q.target].exists
          /\ authUsers' = [authUsers EXCEPT ![q.target].exists = FALSE]
          /\ reqs' = [reqs EXCEPT ![r] = [q EXCEPT !.pc = "du_store", !.effect = TRUE]]
    /\ UNCHANGED <<now, users, nextToken, issued, consumed>>

\* a variant that deletes the document
SoftDelete_remove(doc) == NoDoc

\* UserModel.deleteUser: userRef.update({ status: 'deleted', deletedAt, updatedAt })
SoftDelete(doc) == [doc EXCEPT !.status = "deleted", !.deletedAt = TRUE]

\* await UserModel.deleteUser(id)
deleteUser_store(r) ==
    LET q == reqs[r] IN
    /\ Quiet
    /\ q.pc = "du_store"
    /\ \/ /\ reqs' = [reqs EXCEPT ![r] =
                Respond([q EXCEPT !.fault = TRUE], 500, "Error al eliminar el usuario")]
          /\ UNCHANGED users
       \/ /\ users' = [users EXCEPT ![q.target] = SoftDelete(@)]
          /\ reqs' = [reqs EXCEPT ![r] = Respond(q, 200, "Usuario eliminado correctamente")]
    /\ UNCHANGED <<now, authUsers, nextToken, issued, consumed>>

\* ---------------------------------------------------------- updateUser
\* req.body.email when the body has none
NoEmail == 0 - 1

\* the handler up to its first await
updateUser_enter(q) == [q EXCEPT !.pc = "uu_auth"]

\* auth.updateUser(id, { email, ... }) rejects an unknown uid and an email
\* another identity has
CanUpdateIdentity(uid, email) ==
    /\ authUsers[uid].exists
    /\ email # NoEmail =>
          \A u \in Users \ {uid} : ~ (authUsers[u].exists /\ authUsers[u].email = email)

\* await auth.updateUser(id, { email, displayName, disabled }); then
\* updateData is built with db.FieldValue.serverTimestamp(): db, a Firestore
\* instance, has no FieldValue, so this throws and the document is not updated
updateUser_auth(r) ==
    LET q == [reqs[r] EXCEPT !.calledAuth = TRUE] IN
    /\ Quiet
    /\ q.pc = "uu_auth"
    /\ \/ /\ reqs' = [reqs EXCEPT ![r] =
                Respond([q EXCEPT !.fault = CanUpdateIdentity(q.target, q.email)],
                        400, "error.message")]
          /\ UNCHANGED authUsers
       \/ /\ CanUpdateIdentity(q.target, q.email)
          /\ authUsers' = [authUsers EXCEPT ![q.target].email =
                IF q.email = NoEmail THEN @ ELSE q.email]
          /\ reqs' = [reqs EXCEPT ![r] =
                Respond([q EXCEPT !.effect = TRUE], 400, "error.message")]
    /\ UNCHANGED <<now, users, nextToken, issued, consumed>>

\* ------------------------------------------- updateProfile (PUT /users/me)
\* req.body.status: absent (""), or any string; the route's validators look
\* at personalInfo.* and preferences only
BodyStatuses == {"", "active", "suspended", "archived"}

\* the handler up to its first await; id, email and emailVerified are taken
\* out of the body, every other field stays in safeUpdates
updateProfile_enter(q) == [q EXCEPT !.pc = "up_update"]

\* userRef.update({ ...safeUpdates, updatedAt })
UpdateFields(doc, role, status) ==
    [doc EXCEPT !.role = IF role = "" THEN @ ELSE role,
                !.status = IF status = "" THEN @ ELSE status]

\* await userRef.update(...) in UserModel.updateUser(req.user.id, safeUpdates);
\* update() rejects when the document does not exist
updateProfile_update(r) ==
    LET q == [reqs[r] EXCEPT !.calledStore = TRUE]
        d == q.user.id IN
    /\ Quiet
    /\ q.pc = "up_update"
    /\ \/ /\ reqs' = [reqs EXCEPT ![r] =
                Respond([q EXCEPT !.fault = TRUE], 500, "Error al actualizar el perfil")]
          /\ UNCHANGED users
       \/ /\ ~ users[d].exists
          /\ reqs' = [reqs EXCEPT ![r] =
                Respond(q, 500, "Error al actualizar el perfil")]
          /\ UNCHANGED users
       \/ /\ users[d].exists
          /\ users' = [users EXCEPT ![d] = UpdateFields(@, q.role, q.setStatus)]
          /\ reqs' = [reqs EXCEPT ![r] = [q EXCEPT !.pc = "up_get", !.doc = d,
                                                   !.effect = TRUE]]
    /\ UNCHANGED <<now, authUsers, nextToken, issued, consumed>>

\* const updatedDoc = await userRef.get(), then the 200
updateProfile_get(r) ==
    LET q == reqs[r] IN
    /\ Quiet
    /\ q.pc = "up_get"
    /\ \/ reqs' = [reqs EXCEPT ![r] =
             Respond([q EXCEPT !.fault = TRUE], 500, "Error al actualizar el perfil")]
       \/ reqs' = [reqs EXCEPT ![r] =
             Respond(q, 200, "Perfil actualizado exitosamente")]
    /\ UNCHANGED <<now, authUsers, users, nextToken, issued, consumed>>

\* ------------------------- changePassword (POST /users/me/change-password)
\* req.body.currentPassword: the password the identity has, or another one
CurrentPasswords == {OldPassword, "p-wrong"}

\* the validators of the route (currentPassword a non-empty string,
\* passwordValidation on body('password')), validate, then the handler up to
\* its first await
changePassword_enter(q) ==
    IF q.currentPassword = "" \/ q.bodyPassword # StrongPassword
    THEN Respond(q, 400, "Error de validación")
    ELSE [q EXCEPT !.pc = "cp_lookup"]

\* a variant that compares currentPassword with the identity's password
changePassword_lookup_verifying(r) ==
    LET q == [reqs[r] EXCEPT !.calledAuth = TRUE] IN
    /\ Quiet
    /\ q.pc = "cp_lookup"
    /\ \/ reqs' = [reqs EXCEPT ![r] =
             Respond([q EXCEPT !.fault = TRUE], 400, "Error de autenticación")]
       \/ /\ \/ ~ \E u \in Users : authUsers[u].exists /\ authUsers[u].email = q.user.email
             \/ authUsers[q.user.id].password # q.currentPassword
          /\ reqs' = [reqs EXCEPT ![r] = Respond(q, 400, "Error de autenticación")]
       \/ /\ \E u \in Users : authUsers[u].exists /\ authUsers[u].email = q.user.email
          /\ authUsers[q.user.id].password = q.currentPassword
          /\ reqs' = [reqs EXCEPT ![r] = [q EXCEPT !.pc = "cp_update"]]
    /\ UNCHANGED <<now, authUsers, users, nextToken, issued, consumed>>

\* await auth.getUserByEmail(user.email): any rejection is answered 400;
\* currentPassword is not read
changePassword_lookup(r) ==
    LET q == [reqs[r] EXCEPT !.calledAuth = TRUE] IN
    /\ Quiet
    /\ q.pc = "cp_lookup"
    /\ \/ reqs' = [reqs EXCEPT ![r] =
             Respond([q EXCEPT !.fault = TRUE], 400, "Error de autenticación")]
       \/ /\ ~ \E u \in Users : authUsers[u].exists /\ authUsers[u].email = q.user.email
          /\ reqs' = [reqs EXCEPT ![r] = Respond(q, 400, "Error de autenticación")]
       \/ /\ \E u \in Users : authUsers[u].exists /\ authUsers[u].email = q.user.email
          /\ reqs' = [reqs EXCEPT ![r] = [q EXCEPT !.pc = "cp_update"]]
    /\ UNCHANGED <<now, authUsers, users, nextToken, issued, consumed>>

\* await auth.updateUser(user.id, { password: newPassword }); then
\* emailService.sendPasswordChangedEmail, which the email service does not
\* export: the call throws and the outer catch answers 500
changePassword_update(r) ==
    LET q == reqs[r] IN
    /\ Quiet
    /\ q.pc = "cp_update"
    /\ \/ /\ reqs' = [reqs EXCEPT ![r] =
                Respond([q EXCEPT !.fault = TRUE], 500, "Error al cambiar la contraseña")]
          /\ UNCHANGED authUsers
       \/ /\ ~ authUsers[q.user.id].exists
          /\ reqs' = [reqs EXCEPT ![r] =
                Respond(q, 500, "Error al cambiar la contraseña")]
          /\ UNCHANGED authUsers
       \/ /\ authUsers[q.user.id].exists
          /\ authUsers' = [authUsers EXCEPT ![q.user.id].password = q.password]
          /\ reqs' = [reqs EXCEPT ![r] =
                Respond([q EXCEPT !.effect = TRUE, !.uid = q.user.id],
                        500, "Error al cambiar la contraseña")]
    /\ UNCHANGED <<now, users, nextToken, issued, consumed>>

\* ------------------------------------------- getAllUsers (GET /users)
\* the handler up to its first await: its own role check, then the search
getAllUsers_enter(q) ==
    IF q.user.role # "admin" THEN Respond(q, 403, "No autorizado")
    ELSE [q EXCEPT !.pc = "ga_search"]

\* the sequences that list every element of S once
Orderings(S) ==
    {s \in [1..Cardinality(S) -> S] : \A i, j \in 1..Cardinality(S) : s[i] = s[j] => i = j}

\* const users = await UserModel.searchUsers({ role, status = 'active' }):
\* the profiles with that status, in the order of the query (createdAt, which
\* the model does not keep: any order); users.map(...) then starts one
\* auth.getUser per profile, all of them in flight at once
getAllUsers_search(r) ==
    LET q == [reqs[r] EXCEPT !.calledStore = TRUE]
        found == {d \in Users : users[d].exists /\ users[d].status = "active"} IN
    /\ Quiet
    /\ q.pc = "ga_search"
    /\ \/ reqs' = [reqs EXCEPT ![r] =
             Respond([q EXCEPT !.fault = TRUE], 500,
                     "Error al obtener la lista de usuarios")]
       \/ \E order \in Orderings(found) :
             reqs' = [reqs EXCEPT ![r] =
                [q EXCEPT !.pc = "ga_join", !.listed = order,
                          !.lookups = [i \in 1..Len(order) |-> "pending"]]]
    /\ UNCHANGED <<now, authUsers, users, nextToken, issued, consumed>>

\* one of the pending auth.getUser(user.id) settles: it resolves, or it
\* rejects and the callback's catch returns the profile as it is
getAllUsers_settle(r) ==
    LET q == [reqs[r] EXCEPT !.calledAuth = TRUE] IN
    /\ Quiet
    /\ q.pc = "ga_join"
    /\ \E i \in 1..Len(q.listed) :
          /\ q.lookups[i] = "pending"
          /\ \/ /\ authUsers[q.listed[i]].exists
                /\ reqs' = [reqs EXCEPT ![r] = [q EXCEPT !.lookups[i] = "ok"]]
             \/ reqs' = [reqs EXCEPT ![r] = [q EXCEPT !.lookups[i] = "failed"]]
    /\ UNCHANGED <<now, authUsers, users, nextToken, issued, consumed>>

\* a variant that leaves out the profiles whose lookup failed
usersWithAuth_dropFailed(listed, lookups) ==
    SelectSeq([i \in 1..Len(listed) |-> [id |-> listed[i], enriched |-> lookups[i] = "ok"]],
              LAMBDA item : item.enriched)

\* usersWithAuth: the results of the callbacks, in the order of users
usersWithAuth(listed, lookups) ==
    [i \in 1..Len(listed) |-> [id |-> listed[i], enriched |-> lookups[i] = "ok"]]

\* Promise.all resolves when every callback has; res.json(usersWithAuth)
getAllUsers_respond(r) ==
    LET q == reqs[r] IN
    /\ Quiet
    /\ q.pc = "ga_join"
    /\ \A i \in 1..Len(q.listed) : q.lookups[i] # "pending"
    /\ reqs' = [reqs EXCEPT ![r] =
          Respond([q EXCEPT !.body = usersWithAuth(q.listed, q.lookups)], 200, "users")]
    /\ UNCHANGED <<now, authUsers, users, nextToken, issued, consumed>>

\* ------------------------------------------- getUserById (GET /users/:id)
\* the handler up to its first await: isAdmin || isSelf, else 403
getUserByIdRoute_enter(q) ==
    IF q.user.role # "admin" /\ q.user.id # q.target
    THEN Respond(q, 403, "No autorizado")
    ELSE [q EXCEPT !.pc = "gu_get"]

\* const user = await UserModel.getUserById(id)
getUserByIdRoute_get(r) ==
    LET q == reqs[r] IN
    /\ Quiet
    /\ q.pc = "gu_get"
    /\ \/ reqs' = [reqs EXCEPT ![r] =
             Respond([q EXCEPT !.fault = TRUE], 500, "Error al obtener el usuario")]
       \/ /\ ~ users[q.target].exists
          /\ reqs' = [reqs EXCEPT ![r] = Respond(q, 404, "Usuario no encontrado")]
       \/ /\ users[q.target].exists
          /\ reqs' = [reqs EXCEPT ![r] = [q EXCEPT !.pc = "gu_auth"]]
    /\ UNCHANGED <<now, authUsers, users, nextToken, issued, consumed>>

\* const authUser = await auth.getUser(id); 'auth/user-not-found' still
\* answers with the profile, any other rejection is thrown on
getUserByIdRoute_auth(r) ==
    LET q == [reqs[r] EXCEPT !.calledAuth = TRUE] IN
    /\ Quiet
    /\ q.pc = "gu_auth"
    /\ \/ reqs' = [reqs EXCEPT ![r] = Respond(q, 200, "user")]
       \/ reqs' = [reqs EXCEPT ![r] =
             Respond([q EXCEPT !.fault = TRUE], 500, "Error al obtener el usuario")]
    /\ UNCHANGED <<now, authUsers, users, nextToken, issued, consumed>>

\* ------------------------------------------------------ isAuthenticated
\* The Authorization header: absent, or a string over three symbols: "B" for
\* the word Bearer, "_" for a space, "x" for any other character.
MaxHeaderLen == 4
HeaderChars == {"B", "_", "x"}
Absent == <<"absent">>
Headers ==
    {Absent} \cup UNION {[1..n -> HeaderChars] : n \in 0..MaxHeaderLen}

\* a variant that checks startsWith('Bearer'), without the space
MissingBearer_noSpace(h) ==
    h = Absent \/ Len(h) < 1 \/ h[1] # "B"

\* !authHeader || !authHeader.startsWith('Bearer ')
MissingBearer(h) ==
    h = Absent \/ Len(h) < 2 \/ h[1] # "B" \/ h[2] # "_"

\* authHeader.split(' ')[1]: what stands between the first space and the next
\* (nothing, when the header has no space: split(' ')[1] is undefined)
BearerToken(h) ==
    LET spaces == {i \in 1..Len(h) : h[i] = "_"}
        first == CHOOSE i \in spaces : \A j \in spaces : i <= j
        after == {i \in spaces : i > first}
        stop == IF after = {} THEN Len(h) + 1
                ELSE CHOOSE i \in after : \A j \in after : i <= j
    IN  IF spaces = {} THEN <<>> ELSE SubSeq(h, first + 1, stop - 1)

\* what auth.verifyIdToken() makes of the bearer token
Creds == {"valid", "expired", "malformed", "invalid", "unavailable"}

\* the claims of the ID tokens the provider has signed so far: for every
\* identity that has existed, with email_verified as it was at signing time
Signed ==
    {c \in [uid : Users, email : Emails, email_verified : BOOLEAN] :
        /\ authUsers[c.uid] # NoIdentity
        /\ c.email \in {c.uid, authUsers[c.uid].email}
        /\ c.email_verified => authUsers[c.uid].emailVerified}

ProtectedRoutes ==
    {"updateProfile", "changePassword", "createUser", "getAllUsers",
     "getUserById", "updateUser", "deleteUser"}
AdminRoutes == {"createUser", "getAllUsers", "getUserById", "updateUser", "deleteUser"}

AuthError(q, s, c) == Respond(q, s, c)

\* req.params and req.body, by route
Inputs(route) ==
    IF route = "createUser"
    THEN [target : Users, email : {NoEmail}, role : {"admin", "patient"},
          setStatus : {""},
          bodyPassword : {""}, currentPassword : {""}, password : {""}]
    ELSE IF route = "updateUser"
    THEN [target : Users, email : {NoEmail, 0}, role : {""}, setStatus : {""},
          bodyPassword : {""}, currentPassword : {""}, password : {""}]
    ELSE IF route = "changePassword"
    THEN [target : {0}, email : {NoEmail}, role : {""}, setStatus : {""},
          bodyPassword : BodyPasswords, currentPassword : CurrentPasswords,
          password : {NewPassword}]
    ELSE IF route = "updateProfile"
    THEN [target : {0}, email : {NoEmail}, role : {"", "admin"},
          setStatus : BodyStatuses,
          bodyPassword : {""}, currentPassword : {""}, password : {""}]
    ELSE [target : Users, email : {NoEmail}, role : {""}, setStatus : {""},
          bodyPassword : {""}, currentPassword : {""}, password : {""}]

\* the request arrives; the header checks run before the first await
isAuthenticated_begin(r, route, h) ==
    /\ route = "createUser" => nextToken + Pending <= MaxTokens
    /\ reqs' = [reqs EXCEPT ![r] =
          LET q == [Idle EXCEPT !.op = route, !.route = route, !.header = h] IN
          IF MissingBearer(h)
          THEN AuthError(q, 401, "MISSING_AUTH_TOKEN")
          ELSE IF BearerToken(h) = <<>>
          THEN AuthError(q, 401, "EMPTY_AUTH_TOKEN")
          ELSE [q EXCEPT !.pc = "ia_verify"]]
    /\ UNCHANGED <<now, authUsers, users, nextToken, issued, consumed>>

\* a request for one of the routes arrives with one of the headers H
isAuthenticated_arrive(r, routes, H) ==
    /\ Quiet
    /\ Free(r)
    /\ \E route \in routes, h \in H : isAuthenticated_begin(r, route, h)

\* a variant that treats a provider error other than the three it names as
\* no objection and hands the request on
isAuthenticated_verify_failOpen(r, cred, claims) ==
    LET q == [reqs[r] EXCEPT !.calledAuth = TRUE, !.cred = cred] IN
    /\ \/ /\ cred = "valid"
          /\ claims # NoClaims
          /\ reqs' = [reqs EXCEPT ![r] = [q EXCEPT !.pc = "ia_fetch", !.claims = claims]]
       \/ /\ cred = "expired"
          /\ claims = NoClaims
          /\ reqs' = [reqs EXCEPT ![r] = AuthError(q, 401, "TOKEN_EXPIRED")]
       \/ /\ cred \in {"malformed", "invalid"}
          /\ claims = NoClaims
          /\ reqs' = [reqs EXCEPT ![r] = AuthError(q, 400, "INVALID_TOKEN")]
       \/ /\ cred = "unavailable"
          /\ claims = NoClaims
          /\ reqs' = [reqs EXCEPT ![r] = [q EXCEPT !.pc = "done", !.nextCalled = TRUE]]
    /\ UNCHANGED <<now, authUsers, users, nextToken, issued, consumed>>

\* a variant whose inner catch throws every rejection on to the outer one
isAuthenticated_verify_allThrown(r, cred, claims) ==
    LET q == [reqs[r] EXCEPT !.calledAuth = TRUE, !.cred = cred] IN
    /\ \/ /\ cred = "valid"
          /\ claims # NoClaims
          /\ reqs' = [reqs EXCEPT ![r] = [q EXCEPT !.pc = "ia_fetch", !.claims = claims]]
       \/ /\ cred # "valid"
          /\ claims = NoClaims
          /\ reqs' = [reqs EXCEPT ![r] =
                AuthError([q EXCEPT !.fault = TRUE], 500, "AUTH_ERROR")]
    /\ UNCHANGED <<now, authUsers, users, nextToken, issued, consumed>>

\* decodedToken = await auth.verifyIdToken(token), and the inner catch: cred
\* is what the provider makes of the token, claims what it decodes from a
\* valid one
isAuthenticated_verify(r, cred, claims) ==
    LET q == [reqs[r] EXCEPT !.calledAuth = TRUE, !.cred = cred] IN
    /\ \/ /\ cred = "valid"
          /\ claims # NoClaims
          /\ reqs' = [reqs EXCEPT ![r] = [q EXCEPT !.pc = "ia_fetch", !.claims = claims]]
       \/ /\ cred = "expired"
          /\ claims = NoClaims
          /\ reqs' = [reqs EXCEPT ![r] = AuthError(q, 401, "TOKEN_EXPIRED")]
       \/ \* 'auth/argument-error' or 'auth/invalid-id-token'
          /\ cred \in {"malformed", "invalid"}
          /\ claims = NoClaims
          /\ reqs' = [reqs EXCEPT ![r] = AuthError(q, 400, "INVALID_TOKEN")]
       \/ \* any other rejection is thrown on to the outer catch
          /\ cred = "unavailable"
          /\ claims = NoClaims
          /\ reqs' = [reqs EXCEPT ![r] =
                AuthError([q EXCEPT !.fault = TRUE], 500, "AUTH_ERROR")]
    /\ UNCHANGED <<now, authUsers, users, nextToken, issued, consumed>>

\* the provider answers with one of the outcomes C
isAuthenticated_verified(r, C) ==
    /\ Quiet
    /\ reqs[r].pc = "ia_verify"
    /\ \E cred \in C, claims \in Signed \cup {NoClaims} :
          isAuthenticated_verify(r, cred, claims)

\* { ...a, ...b }: the keys of b override those of a
Spread(a, b) ==
    [k \in DOMAIN a \cup DOMAIN b |-> IF k \in DOMAIN b THEN b[k] ELSE a[k]]

\* UserModel.getUserById: { id: userDoc.id, ...userDoc.data() }; the email
\* field of a document is the one it was created with, numbered as its id
getUserById(d) ==
    [id |-> d, email |-> d, role |-> users[d].role, status |-> users[d].status,
     emailVerified |-> users[d].emailVerified]

\* req.user = { id: decodedToken.uid, email: decodedToken.email,
\*              emailVerified: decodedToken.email_verified || false, ...user }
Principal(decoded, user) ==
    Spread([id |-> decoded.uid, email |-> decoded.email,
            emailVerified |-> decoded.email_verified], user)

\* a variant that also lets a principal through to its own id
isAdmin_orSelf(q) == q.user.role = "admin" \/ q.user.id = q.target

\* isAdmin, then the route's handler up to its first await
isAdmin(q) == q.user.role = "admin"

Forbidden(q) == Respond(q, 403, "Acceso denegado")

\* ------------------------------------------------------------ the gates
Unauthenticated(q) == Respond(q, 401, "No autenticado")

\* next() of a gate that stands alone: the request is handed on unanswered
Pass(q) == [q EXCEPT !.pc = "done", !.nextCalled = TRUE]

\* the whole isAdmin middleware, its !req.user branch included
isAdmin_gate(q) ==
    IF q.user = NoUser THEN Unauthenticated(q)
    ELSE IF ~ isAdmin(q) THEN Forbidden(q)
    ELSE Pass(q)

\* a variant that lets every attached principal through
hasRole_anyPrincipal(roles, q) ==
    IF q.user = NoUser THEN Unauthenticated(q) ELSE Pass(q)

\* hasRole(roles): roles.includes(req.user.role)
hasRole(roles, q) ==
    IF q.user = NoUser THEN Unauthenticated(q)
    ELSE IF q.user.role \notin roles THEN Forbidden(q)
    ELSE Pass(q)

\* a variant that always reads the parameter called id
isOwnerOrAdmin_idOnly(idParam, q) ==
    IF q.user = NoUser THEN Unauthenticated(q)
    ELSE IF q.user.role = "admin" THEN Pass(q)
    ELSE IF q.params["id"] # q.user.id THEN Forbidden(q)
    ELSE Pass(q)

\* isOwnerOrAdmin(idParam): admin, or req.params[idParam] === req.user.id
isOwnerOrAdmin(idParam, q) ==
    IF q.user = NoUser THEN Unauthenticated(q)
    ELSE IF q.user.role = "admin" THEN Pass(q)
    ELSE IF q.params[idParam] # q.user.id THEN Forbidden(q)
    ELSE Pass(q)

\* what isAuthenticated can have attached: nothing (the gate is mounted
\* without it), or the principal of an active profile
GatePrincipals ==
    {NoUser} \cup
    {Principal([uid |-> u, email |-> u, email_verified |-> v],
               [id |-> u, email |-> u, role |-> ro, status |-> "active",
                emailVerified |-> v]) : u \in Users, ro \in Roles, v \in {TRUE}}

\* a request reaches a gate with req.user and req.params as the chain before
\* it has left them
gate_arrive(r, user, params) ==
    /\ Quiet
    /\ Free(r)
    /\ reqs' = [reqs EXCEPT ![r] = [Idle EXCEPT !.op = "gate", !.pc = "gate",
                                                !.user = user, !.params = params]]
    /\ UNCHANGED <<now, authUsers, users, nextToken, issued, consumed>>

isAdmin_run(r) ==
    LET q == [reqs[r] EXCEPT !.gate = "isAdmin", !.roles = {"admin"}] IN
    /\ Quiet
    /\ q.pc = "gate"
    /\ reqs' = [reqs EXCEPT ![r] = isAdmin_gate(q)]
    /\ UNCHANGED <<now, authUsers, users, nextToken, issued, consumed>>

hasRole_run(r, roles) ==
    LET q == [reqs[r] EXCEPT !.gate = "hasRole", !.roles = roles] IN
    /\ Quiet
    /\ q.pc = "gate"
    /\ reqs' = [reqs EXCEPT ![r] = hasRole(roles, q)]
    /\ UNCHANGED <<now, authUsers, users, nextToken, issued, consumed>>

isOwnerOrAdmin_run(r, idParam) ==
    LET q == [reqs[r] EXCEPT !.gate = "isOwnerOrAdmin", !.idParam = idParam] IN
    /\ Quiet
    /\ q.pc = "gate"
    /\ reqs' = [reqs EXCEPT ![r] = isOwnerOrAdmin(idParam, q)]
    /\ UNCHANGED <<now, authUsers, users, nextToken, issued, consumed>>

\* a variant of the chain without router.use(isAdmin)
Dispatch_noGate(q) ==
    IF q.route = "updateProfile" THEN updateProfile_enter(q)
    ELSE IF q.route = "changePassword" THEN changePassword_enter(q)
    ELSE IF q.route = "createUser" THEN createUser_enter(q)
    ELSE IF q.route = "getAllUsers" THEN getAllUsers_enter(q)
    ELSE IF q.route = "getUserById" THEN getUserByIdRoute_enter(q)
    ELSE IF q.route = "updateUser" THEN updateUser_enter(q)
    ELSE deleteUser_enter(q)

\* next(): the rest of the route's chain, up to the first await
Dispatch(q) ==
    IF q.route \in AdminRoutes /\ ~ isAdmin(q) THEN Forbidden(q)
    ELSE IF q.route = "updateProfile" THEN updateProfile_enter(q)
    ELSE IF q.route = "changePassword" THEN changePassword_enter(q)
    ELSE IF q.route = "createUser" THEN createUser_enter(q)
    ELSE IF q.route = "getAllUsers" THEN getAllUsers_enter(q)
    ELSE IF q.route = "getUserById" THEN getUserByIdRoute_enter(q)
    ELSE IF q.route = "updateUser" THEN updateUser_enter(q)
    ELSE deleteUser_enter(q)

\* a variant that turns away only the profiles marked deleted
Inactive_deletedOnly(user) == user.status = "deleted"

\* user.status !== 'active'
Inactive(user) == user.status # "active"

\* a variant for which every read finds a profile
NoProfile_never(d) == FALSE

\* if (!user): getUserById returns null for a document that does not exist
NoProfile(d) == ~ users[d].exists

\* user = await UserModel.getUserById(decodedToken.uid), the status check,
\* req.user and next(); in is what the handler reads of the request
isAuthenticated_fetch(r, in) ==
    LET q == [reqs[r] EXCEPT !.calledStore = TRUE]
        d == q.claims.uid IN
    /\ \/ reqs' = [reqs EXCEPT ![r] =
             AuthError([q EXCEPT !.fault = TRUE], 500, "USER_FETCH_ERROR")]
       \/ /\ NoProfile(d)
          /\ reqs' = [reqs EXCEPT ![r] = AuthError(q, 404, "USER_NOT_FOUND")]
       \/ /\ ~ NoProfile(d)
          /\ Inactive(getUserById(d))
          /\ reqs' = [reqs EXCEPT ![r] =
                AuthError([q EXCEPT !.payload = getUserById(d).status],
                          403, "ACCOUNT_INACTIVE")]
       \/ /\ ~ NoProfile(d)
          /\ ~ Inactive(getUserById(d))
          /\ reqs' = [reqs EXCEPT ![r] =
                Dispatch([q EXCEPT !.user = Principal(q.claims, getUserById(d)),
                                   !.nextCalled = TRUE,
                                   !.target = in.target, !.email = in.email,
                                   !.role = in.role,
                                   !.setStatus = in.setStatus,
                                   !.bodyPassword = in.bodyPassword,
                                   !.currentPassword = in.currentPassword,
                                   !.password = in.password])]
    /\ UNCHANGED <<now, authUsers, users, nextToken, issued, consumed>>

\* the store answers; the handler then reads its inputs from the request
isAuthenticated_fetched(r) ==
    /\ Quiet
    /\ reqs[r].pc = "ia_fetch"
    /\ \E in \in Inputs(reqs[r].route) : isAuthenticated_fetch(r, in)

\* ------------------------------------------------------------ the system
\* One active admin is provisioned out of band: every route that creates a
\* profile is behind isAdmin.
SeedAdmin == 1

Init ==
    /\ now = 0
    /\ authUsers = [u \in Users |-> IF u = SeedAdmin THEN NewIdentity(u) ELSE NoIdentity]
    /\ users = [u \in Users |-> IF u = SeedAdmin
                                 THEN [NoDoc EXCEPT !.exists = TRUE, !.role = "admin",
                                                    !.status = "active"]
                                 ELSE NoDoc]
    /\ reqs = [r \in Reqs |-> Idle]
    /\ nextToken = 1
    /\ issued = [t \in Tokens |-> NoIssue]
    /\ consumed = {}

\* The state some createUser and verifyEmail requests of the earlier
\* controller leave behind: next to the admin, every other account exists
\* with a verified email and no token outstanding.
IssueInit ==
    /\ now = 0
    /\ authUsers = [u \in Users |-> [NewIdentity(u) EXCEPT !.emailVerified = u # SeedAdmin]]
    /\ users = [u \in Users |->
                  IF u = SeedAdmin
                  THEN [NoDoc EXCEPT !.exists = TRUE, !.role = "admin", !.status = "active"]
                  ELSE ClearVerificationToken(LegacyProfile(u, "patient", 0, 0))]
    /\ reqs = [r \in Reqs |-> Idle]
    /\ nextToken = 1
    /\ issued = [t \in Tokens |-> NoIssue]
    /\ consumed = {}

\* the two password-reset routes, for the requests in R
ResetRoutes(R) ==
    \E r \in R :
       \/ \E e \in Emails : requestPasswordReset_begin(r, e)
       \/ requestPasswordReset_lookup(r)
       \/ requestPasswordReset_update(r)
       \/ requestPasswordReset_email(r)
       \/ \E t \in 0..MaxTokens, pw \in BodyPasswords, p \in {"", NewPassword} :
             resetPassword_begin(r, t, pw, p)
       \/ resetPassword_query(r)
       \/ resetPassword_auth(r)
       \/ resetPassword_clear(r)

\* the public token routes, for the requests in R
TokenRoutes(R) ==
    \E r \in R :
       \/ \E e \in Emails : requestPasswordReset_begin(r, e)
       \/ requestPasswordReset_lookup(r)
       \/ requestPasswordReset_update(r)
       \/ requestPasswordReset_email(r)
       \/ \E t \in 0..MaxTokens, pw \in BodyPasswords, p \in {"", NewPassword} :
             resetPassword_begin(r, t, pw, p)
       \/ resetPassword_query(r)
       \/ resetPassword_auth(r)
       \/ resetPassword_clear(r)
       \/ \E t \in 0..MaxTokens : verifyEmail_begin(r, t)
       \/ verifyEmail_query(r)
       \/ verifyEmail_auth(r)
       \/ verifyEmail_clear(r)

LegacyRoutes(R) ==
    \E r \in R :
       \/ \E e \in Users, role \in {"patient", "nurse"} : legacyCreateUser_begin(r, e, role)
       \/ legacyCreateUser_auth(r)
       \/ legacyCreateUser_claims(r)
       \/ legacyCreateUser_save(r)

\* the routes behind router.use(isAuthenticated), for the requests in R, with
\* the headers H and the verification outcomes C
ProtectedRoutesOf(R, routes, H, C) ==
    \E r \in R :
       \/ isAuthenticated_arrive(r, routes, H)
       \/ isAuthenticated_verified(r, C)
       \/ isAuthenticated_fetched(r)
       \/ createUser_auth(r)
       \/ createUser_save(r)
       \/ createUser_claims(r)

\* the handlers between router.use(isAuthenticated) and router.use(isAdmin)
SelfHandlers(R) ==
    \E r \in R :
       \/ updateProfile_update(r)
       \/ updateProfile_get(r)
       \/ changePassword_lookup(r)
       \/ changePassword_update(r)

AdminHandlers(R) ==
    \E r \in R :
       \/ getUserByIdRoute_get(r)
       \/ getUserByIdRoute_auth(r)
       \/ updateUser_auth(r)
       \/ deleteUser_get(r)
       \/ deleteUser_auth(r)
       \/ deleteUser_store(r)

One == {"r1"}
GoodHeader == <<"B", "_", "x">>

\* The token workflow, one request at a time.
Next ==
    \/ Tick
    \/ TokenRoutes(One)
    \/ LegacyRoutes(One)
    \/ ProtectedRoutesOf(One, {"createUser"}, {GoodHeader}, {"valid"})
    \/ \E r \in Reqs : Collect(r)

Spec == Init /\ [][Next]_vars

\* The session middleware and the admin routes, one request at a time.
AuthNext ==
    \/ LegacyRoutes(One)
    \/ ProtectedRoutesOf(One, AdminRoutes \ {"getAllUsers"}, {GoodHeader}, Creds)
    \/ AdminHandlers(One)
    \/ \E r \in Reqs : Collect(r)

AuthSpec == Init /\ [][AuthNext]_vars

\* The session middleware under every Authorization header.
HeaderNext ==
    \/ ProtectedRoutesOf(One, {"createUser"}, Headers, Creds)
    \/ \E r \in Reqs : Collect(r)

HeaderSpec == Init /\ [][HeaderNext]_vars

\* Two requests in flight on the token workflow.
RaceNext ==
    \/ Tick
    \/ LegacyRoutes(One)
    \/ TokenRoutes(Reqs)
    \/ \E r \in Reqs : Collect(r)

RaceSpec == Init /\ [][RaceNext]_vars

\* The listing of the users, next to the route that creates them.
ListHandlers(R) ==
    \E r \in R :
       \/ getAllUsers_search(r)
       \/ getAllUsers_settle(r)
       \/ getAllUsers_respond(r)

ListNext ==
    \/ ProtectedRoutesOf(One, {"getAllUsers", "createUser"}, {GoodHeader}, {"valid"})
    \/ ListHandlers(One)
    \/ \E r \in Reqs : Collect(r)

ListSpec == Init /\ [][ListNext]_vars

\* Password resets for several existing accounts.
IssueNext ==
    \/ Tick
    \/ ResetRoutes(One)
    \/ \E r \in Reqs : Collect(r)

IssueSpec == IssueInit /\ [][IssueNext]_vars

\* The routes a principal has for its own profile, next to the route that
\* creates principals.
ProfileNext ==
    \/ ProtectedRoutesOf(One, {"updateProfile", "changePassword", "createUser"},
                         {GoodHeader}, {"valid"})
    \/ SelfHandlers(One)
    \/ \E r \in Reqs : Collect(r)

ProfileSpec == Init /\ [][ProfileNext]_vars

\* The authorization gates, each applied on its own to every principal.
Gates(R) ==
    \E r \in R :
       \/ \E user \in GatePrincipals, params \in [ParamNames -> Users \cup {0}] :
             gate_arrive(r, user, params)
       \/ isAdmin_run(r)
       \/ \E roles \in SUBSET Roles : hasRole_run(r, roles)
       \/ \E idParam \in ParamNames : isOwnerOrAdmin_run(r, idParam)

GateNext ==
    \/ LegacyRoutes(One)
    \/ Gates(One)
    \/ \E r \in Reqs : Collect(r)

GateSpec == Init /\ [][GateNext]_vars

\* ------------------------------------------------------------ properties
\* In the properties below a response "modulo outages" is the one a request
\* gets when no call it makes to the provider, the store or the mail sender
\* fails for a reason of the infrastructure (fault).

\* C1: when isAuthenticated has verified the bearer token and reads a profile
\* whose status is not 'active', the request ends there: no principal is
\* attached, next() is not called, the answer is not a 200 and, unless the
\* read of the profile itself fails, it is 403 ACCOUNT_INACTIVE carrying the
\* status read.
C1_InactiveProfileRejected ==
    [][\A r \in Reqs :
          LET q == reqs[r]
              d == q.claims.uid IN
          (/\ q.pc = "ia_fetch"
           /\ reqs'[r] # q
           /\ users[d].exists
           /\ users[d].status # "active")
          => /\ reqs'[r].pc = "done"
             /\ reqs'[r].user = NoUser
             /\ ~ reqs'[r].nextCalled
             /\ reqs'[r].status # 200
             /\ ~ reqs'[r].fault =>
                   /\ reqs'[r].status = 403
                   /\ reqs'[r].code = "ACCOUNT_INACTIVE"
                   /\ reqs'[r].payload = users[d].status]_vars

\* a request with a verified token of a deleted profile has been answered 403
C1_Witness ==
    \E r \in Reqs :
       /\ reqs[r].pc = "done"
       /\ reqs[r].cred = "valid"
       /\ users[reqs[r].claims.uid].status = "deleted"
       /\ reqs[r].code = "ACCOUNT_INACTIVE"
       /\ reqs[r].payload = "deleted"
       /\ reqs[r].user = NoUser

\* C2: a request to a protected route whose Authorization header is absent or
\* does not start with "Bearer " is answered 401 MISSING_AUTH_TOKEN, and
\* neither the identity provider nor the profile store has been called.
C2_MissingHeaderRejected ==
    \A r \in Reqs :
       LET q == reqs[r]
           h == q.header IN
       (/\ q.route \in ProtectedRoutes
        /\ h = Absent \/ Len(h) < 2 \/ SubSeq(h, 1, 2) # <<"B", "_">>)
       => /\ q.pc = "done"
          /\ q.status = 401
          /\ q.code = "MISSING_AUTH_TOKEN"
          /\ ~ q.calledAuth
          /\ ~ q.calledStore

\* a request without the header, or with another scheme than Bearer, has
\* been answered MISSING_AUTH_TOKEN before any external call
C2_Witness ==
    \E r \in Reqs :
       /\ reqs[r].pc = "done"
       /\ reqs[r].route \in ProtectedRoutes
       /\ reqs[r].header \in {Absent, <<"x", "_", "x">>}
       /\ reqs[r].status = 401
       /\ reqs[r].code = "MISSING_AUTH_TOKEN"
       /\ ~ reqs[r].calledAuth
       /\ ~ reqs[r].calledStore

\* C5: once next() has been called, the principal's id, email and
\* emailVerified are those of the verified token claims.
C5_PrincipalIdentityFromToken ==
    \A r \in Reqs :
       reqs[r].nextCalled =>
          /\ reqs[r].user.id = reqs[r].claims.uid
          /\ reqs[r].user.email = reqs[r].claims.email
          /\ reqs[r].user.emailVerified = reqs[r].claims.email_verified

\* C5, the diverging case: next() has been called for a request whose token
\* carries another email than its profile, and the principal has the profile's
C5_Divergence ==
    \E r \in Reqs :
       /\ reqs[r].nextCalled
       /\ reqs[r].claims.email # reqs[r].claims.uid
       /\ reqs[r].user.email = reqs[r].claims.uid

\* C3: of two resetPassword requests in flight with the same token, both of
\* which the query matched, at most one changes the password.
C3_OneConsumerWins ==
    \A r1, r2 \in Reqs :
       (/\ r1 # r2
        /\ reqs[r1].op = "resetPassword"
        /\ reqs[r2].op = "resetPassword"
        /\ reqs[r1].token = reqs[r2].token
        /\ reqs[r1].matched
        /\ reqs[r2].matched)
       => ~ (reqs[r1].effect /\ reqs[r2].effect)

\* C4: a requestPasswordReset request for an email nobody has is answered 200
\* with the generic message; so is every request for an email that has an
\* account, whatever the store update and the email send do.
C4_SameAnswerForEveryEmail ==
    \A r \in Reqs :
       (reqs[r].pc = "done" /\ reqs[r].op = "requestPasswordReset")
       => /\ reqs[r].status = 200
          /\ reqs[r].code = GenericResetMessage

\* C6: a verifyEmail or resetPassword request that presents, strictly before
\* its expiry, a token createUser or requestPasswordReset issued for that
\* purpose, not yet consumed nor replaced by a newer one, is answered success
\* modulo outages; and a request changes only the profile and the identity
\* its token was issued to.
C6_FreshTokenValidates ==
    \A r \in Reqs :
       LET q == reqs[r]
           i == issued[q.token]
           purpose == IF q.op = "verifyEmail" THEN "verify" ELSE "reset" IN
       (q.op \in {"verifyEmail", "resetPassword"} /\ q.token \in Tokens)
       => /\ (/\ q.pc = "done"
              /\ q.op = "resetPassword" => q.password # ""
              /\ i.by \in {"createUser", "requestPasswordReset"}
              /\ i.purpose = purpose
              /\ now < i.expiry
              /\ ~ q.late
              /\ ~ \E t \in Tokens : /\ t > q.token
                                     /\ issued[t].owner = i.owner
                                     /\ issued[t].purpose = purpose
              /\ ~ q.fault)
             => (q.status = 200 /\ q.doc = i.owner)
          /\ q.effect => (q.doc = i.owner /\ q.uid = i.owner)

\* C7: the query of resetPassword and of verifyEmail matches exactly when some
\* profile stores the presented token with an expiry the clock is strictly
\* before; when it does not match, the answer is 400 modulo outages.
C7_ExpiryBoundary ==
    [][\A r \in Reqs :
          LET q == reqs[r]
              live == {d \in Users :
                          LET e == IF q.pc = "rp_query" THEN users[d].resetTokenExpiry
                                   ELSE users[d].emailVerificationExpires
                              t == IF q.pc = "rp_query" THEN users[d].resetToken
                                   ELSE users[d].emailVerificationToken IN
                          users[d].exists /\ t = q.token /\ e # NoExpiry /\ now < e.v} IN
          (/\ q.pc \in {"rp_query", "ve_query"}
           /\ reqs'[r] # q
           /\ ~ reqs'[r].fault)
          => /\ live = {} => (reqs'[r].pc = "done" /\ reqs'[r].status = 400)
             /\ live # {} => (reqs'[r].matched /\ reqs'[r].pc # "done")]_vars

\* C8: a resetPassword or verifyEmail request that arrives with a token an
\* earlier request has answered success with matches no profile, changes
\* nothing at the identity provider and is answered 400 modulo outages.
C8_ConsumedTokenInvalid ==
    \A r \in Reqs :
       reqs[r].late =>
          /\ ~ reqs[r].matched
          /\ ~ reqs[r].effect
          /\ (reqs[r].pc = "done" /\ ~ reqs[r].fault) => reqs[r].status = 400

\* a consumed token has been presented again, looked up and answered 400
C8_Witness ==
    \E r \in Reqs :
       /\ reqs[r].late
       /\ reqs[r].pc = "done"
       /\ reqs[r].calledStore
       /\ reqs[r].status = 400
       /\ reqs[r].op = "resetPassword"
       /\ authUsers[issued[reqs[r].token].owner].password = NewPassword

\* C9: once a later reset token has been persisted for a profile, no profile
\* stores an earlier reset token of that profile any more.
C9_NewResetTokenOverwrites ==
    \A t1, t2 \in Tokens :
       (/\ t1 < t2
        /\ issued[t1].purpose = "reset"
        /\ issued[t2].purpose = "reset"
        /\ issued[t1].owner = issued[t2].owner)
       => /\ \A d \in Users : users[d].resetToken # t1
          /\ ResetMatches(t1, 0) = {}

\* two reset tokens have been issued to one profile, which stores the later
\* one while the earlier one has not expired
C9_Witness ==
    \E t1, t2 \in Tokens :
       /\ t1 < t2
       /\ issued[t1].purpose = "reset"
       /\ issued[t2].purpose = "reset"
       /\ issued[t1].owner = issued[t2].owner
       /\ now < issued[t1].expiry
       /\ users[issued[t2].owner].resetToken = t2

\* C10: when the provider update of a resetPassword or verifyEmail request has
\* failed, the profile the query matched still stores the presented token with
\* its expiry, and the same query still matches it.
C10_FailedUpdateKeepsToken ==
    \A r \in Reqs :
       LET q == reqs[r] IN
       (/\ q.pc = "done"
        /\ q.op \in {"resetPassword", "verifyEmail"}
        /\ q.matched
        /\ q.calledAuth
        /\ ~ q.effect)
       => /\ q.op = "resetPassword" => q.doc \in ResetMatches(q.token, now)
          /\ q.op = "verifyEmail" => q.doc \in VerifyMatches(q.token, now)

\* the provider update of a resetPassword request has failed, the answer is
\* 500 and the profile still stores the token
C10_Witness ==
    \E r \in Reqs :
       /\ reqs[r].pc = "done"
       /\ reqs[r].op = "resetPassword"
       /\ reqs[r].matched
       /\ reqs[r].calledAuth
       /\ reqs[r].fault
       /\ reqs[r].status = 500
       /\ users[reqs[r].doc].resetToken = reqs[r].token

\* C11: when a resetPassword or verifyEmail request has answered after
\* applying its effect at the identity provider, the token it presented is no
\* longer live: the query it ran matches the profile no more.
C11_EffectInvalidatesToken ==
    \A r \in Reqs :
       LET q == reqs[r] IN
       (/\ q.pc = "done"
        /\ q.op \in {"resetPassword", "verifyEmail"}
        /\ q.effect)
       => /\ q.op = "resetPassword" => q.doc \notin ResetMatches(q.token, now)
          /\ q.op = "verifyEmail" => q.doc \notin VerifyMatches(q.token, now)

\* C12: a step of a resetPassword or verifyEmail request that nulls a token
\* stored in a profile is the store update of a request whose provider update
\* has already succeeded, and the provider holds that update.
C12_ClearAfterProviderUpdate ==
    [][\A d \in Users :
          /\ (users[d].resetToken # 0 /\ users'[d].resetToken = 0)
             => \E r \in Reqs :
                   /\ reqs[r].pc = "rp_clear"
                   /\ reqs[r].doc = d
                   /\ reqs[r].effect
                   /\ authUsers[reqs[r].uid].password = reqs[r].password
          /\ (users[d].emailVerificationToken # 0 /\ users'[d].emailVerificationToken = 0)
             => \E r \in Reqs :
                   /\ reqs[r].pc = "ve_clear"
                   /\ reqs[r].doc = d
                   /\ reqs[r].effect
                   /\ authUsers[reqs[r].uid].emailVerified]_vars

\* a verifyEmail request has answered success: the provider has the email
\* verified and the profile's token is nulled
C12_Witness ==
    \E r \in Reqs :
       /\ reqs[r].pc = "done"
       /\ reqs[r].op = "verifyEmail"
       /\ reqs[r].status = 200
       /\ reqs[r].effect
       /\ authUsers[reqs[r].uid].emailVerified
       /\ users[reqs[r].doc].emailVerificationToken = 0

\* C13: a requestPasswordReset request that has persisted its token answers
\* 200, whatever the email send does.
C13_MailFailureNeverEscalates ==
    \A r \in Reqs :
       (/\ reqs[r].pc = "done"
        /\ reqs[r].op = "requestPasswordReset"
        /\ reqs[r].effect)
       => reqs[r].status = 200

\* C14: every step of a requestPasswordReset request for an email no identity
\* has leaves the profiles as they are, draws no token, calls neither the
\* store nor the mail sender, and ends the request with 200.
C14_UnknownEmailNoOp ==
    [][\A r \in Reqs :
          LET q == reqs[r] IN
          (/\ q.op = "requestPasswordReset"
           /\ q.pc = "pr_lookup"
           /\ reqs'[r] # q
           /\ ~ \E u \in Users : authUsers[u].exists /\ authUsers[u].email = q.target)
          => /\ users' = users
             /\ nextToken' = nextToken
             /\ reqs'[r].pc = "done"
             /\ reqs'[r].status = 200
             /\ reqs'[r].token = 0
             /\ ~ reqs'[r].calledStore
             /\ ~ reqs'[r].calledMail]_vars

\* a requestPasswordReset request for an email nobody has has been answered
C14_Witness ==
    \E r \in Reqs :
       /\ reqs[r].pc = "done"
       /\ reqs[r].op = "requestPasswordReset"
       /\ ~ \E u \in Users : authUsers[u].exists /\ authUsers[u].email = reqs[r].target
       /\ reqs[r].calledAuth
       /\ reqs[r].status = 200
       /\ ~ reqs[r].calledStore
       /\ ~ reqs[r].calledMail

\* C15: on GET /users/:id a request with an admin principal is not turned
\* away (no 401, no 403), and a request with a non-admin principal for another
\* id than its own is answered 403 with reason FORBIDDEN_OWNERSHIP.
C15_GetUserOwnership ==
    \A r \in Reqs :
       LET q == reqs[r] IN
       (q.pc = "done" /\ q.route = "getUserById" /\ q.nextCalled)
       => /\ q.user.role = "admin" => q.status \notin {401, 403}
          /\ (q.user.role # "admin" /\ q.user.id # q.target)
             => (q.status = 403 /\ q.code = "FORBIDDEN_OWNERSHIP")

\* C16: with a principal attached, isOwnerOrAdmin hands the request on
\* exactly when the principal's role is admin or its id equals the route
\* parameter the gate was built for, and answers 403 in every other case.
C16_OwnerOrAdminDecision ==
    \A r \in Reqs :
       LET q == reqs[r] IN
       (q.pc = "done" /\ q.gate = "isOwnerOrAdmin" /\ q.user # NoUser)
       => /\ q.nextCalled <=> (q.user.role = "admin" \/ q.user.id = q.params[q.idParam])
          /\ ~ q.nextCalled => q.status = 403
          /\ q.nextCalled => q.status = 0

\* a non-admin passes on its own id, named by a parameter other than id
C16_Witness ==
    \E r \in Reqs :
       LET q == reqs[r] IN
       /\ q.pc = "done" /\ q.gate = "isOwnerOrAdmin" /\ q.idParam = "userId"
       /\ q.user # NoUser /\ q.user.role # "admin"
       /\ q.params["userId"] = q.user.id /\ q.params["id"] # q.user.id
       /\ q.nextCalled

\* C17: hasRole(roles), and isAdmin as roles = {admin}, hands the request on
\* exactly when a principal is attached and its role is in the set; a
\* principal with another role is answered 403; the step changes neither
\* req.user nor the identities nor the profiles.
C17_RoleGateDecision ==
    [][\A r \in Reqs :
         LET q == reqs[r]
             a == reqs'[r] IN
         (q.pc = "gate" /\ a.pc = "done" /\ a.gate \in {"hasRole", "isAdmin"})
         => /\ a.nextCalled <=> (q.user # NoUser /\ q.user.role \in a.roles)
            /\ (q.user # NoUser /\ q.user.role \notin a.roles) => a.status = 403
            /\ a.gate = "isAdmin" => a.roles = {"admin"}
            /\ a.user = q.user
            /\ users' = users /\ authUsers' = authUsers]_vars

\* a doctor is turned away by hasRole({admin, patient}) and passes
\* hasRole({doctor})
C17_Witness ==
    \E r \in Reqs :
       LET q == reqs[r] IN
       /\ q.pc = "done" /\ q.gate = "hasRole" /\ q.user # NoUser
       /\ q.user.role \notin q.roles /\ q.roles # {} /\ q.status = 403
       /\ ~ q.nextCalled

\* C18: a request whose bearer token the provider rejected is answered with
\* the reason code of the rejection: TOKEN_EXPIRED for an expired token,
\* INVALID_TOKEN for a malformed or invalid one, AUTH_ERROR for any other
\* provider error; the next handler is not called.
C18_RejectionReason ==
    \A r \in Reqs :
       LET q == reqs[r] IN
       (q.pc = "done" /\ q.cred \in Creds \ {"valid"})
       => /\ q.cred = "expired" => q.code = "TOKEN_EXPIRED"
          /\ q.cred \in {"malformed", "invalid"} => q.code = "INVALID_TOKEN"
          /\ q.cred = "unavailable" => q.code = "AUTH_ERROR"
          /\ ~ q.nextCalled

C18_Witness ==
    \E r \in Reqs :
       /\ reqs[r].pc = "done" /\ reqs[r].cred = "invalid"
       /\ reqs[r].calledAuth /\ reqs[r].code = "INVALID_TOKEN"

\* C19: each of the four token failures (missing header, empty token,
\* expired token, invalid token) is answered with status 401.
C19_TokenFailuresAre401 ==
    \A r \in Reqs :
       LET q == reqs[r] IN
       (/\ q.pc = "done"
        /\ q.code \in {"MISSING_AUTH_TOKEN", "EMPTY_AUTH_TOKEN",
                       "TOKEN_EXPIRED", "INVALID_TOKEN"})
       => q.status = 401

\* C20: the step that follows a successful verification answers 500
\* USER_FETCH_ERROR when the read of the profile fails and 404 USER_NOT_FOUND
\* when the profile does not exist; either way req.user stays unset and the
\* next handler is not called.
C20_FetchFailures ==
    [][\A r \in Reqs :
         LET q == reqs[r]
             a == reqs'[r] IN
         (q.pc = "ia_fetch" /\ a # q)
         => /\ a.fault
               => /\ a.pc = "done" /\ a.status = 500 /\ a.code = "USER_FETCH_ERROR"
                  /\ a.user = NoUser /\ ~ a.nextCalled
            /\ (~ a.fault /\ ~ users[q.claims.uid].exists)
               => /\ a.pc = "done" /\ a.status = 404 /\ a.code = "USER_NOT_FOUND"
                  /\ a.user = NoUser /\ ~ a.nextCalled]_vars

\* a verified token of an identity whose profile was never saved
C20_Witness ==
    \E r \in Reqs :
       LET q == reqs[r] IN
       /\ q.pc = "done" /\ q.cred = "valid" /\ q.calledStore
       /\ authUsers[q.claims.uid].exists /\ ~ users[q.claims.uid].exists
       /\ q.status = 404 /\ q.code = "USER_NOT_FOUND"
       /\ q.user = NoUser /\ ~ q.nextCalled

\* C21: while the provider has not answered, and after it has rejected the
\* token with any error (a timeout included), the request has no principal
\* and the next handler has not been called; a rejected request is answered
\* with an error.
C21_FailClosed ==
    \A r \in Reqs :
       LET q == reqs[r] IN
       /\ q.pc = "ia_verify" => (q.user = NoUser /\ ~ q.nextCalled)
       /\ q.cred \in Creds \ {"valid"}
          => /\ q.user = NoUser /\ ~ q.nextCalled
             /\ q.pc = "done" /\ q.status \in {400, 401, 500}

C21_Witness ==
    \E r \in Reqs :
       LET q == reqs[r] IN
       /\ q.pc = "done" /\ q.cred = "unavailable" /\ q.calledAuth
       /\ q.status = 500 /\ q.user = NoUser /\ ~ q.nextCalled

\* C22: a header that is the prefix 'Bearer ' and nothing more is answered
\* EMPTY_AUTH_TOKEN before the provider is called, and a header that carries
\* a token after the prefix (a character other than a space) is never
\* answered EMPTY_AUTH_TOKEN.
C22_EmptyTokenRejected ==
    \A r \in Reqs :
       LET q == reqs[r]
           h == q.header IN
       (/\ q.route \in ProtectedRoutes
        /\ h # Absent /\ Len(h) >= 2 /\ SubSeq(h, 1, 2) = <<"B", "_">>)
       => /\ Len(h) = 2
             => /\ q.pc = "done" /\ q.status = 401
                /\ q.code = "EMPTY_AUTH_TOKEN" /\ ~ q.calledAuth
          /\ (\E i \in 3..Len(h) : h[i] # "_") => q.code # "EMPTY_AUTH_TOKEN"

\* C23: a verifyEmail request that presents a verification token issued with
\* a 24h expiry, 25h or more after the issue, changes no profile and no
\* identity (emailVerified stays as it was) and is answered 400 'Invalid or
\* expired verification token' modulo outages.
C23_LateVerifyRejected ==
    [][\A r \in Reqs :
         LET q == reqs[r]
             a == reqs'[r]
             i == issued[q.token] IN
         (/\ q.op = "verifyEmail" /\ q.pc \in {"ve_query", "ve_auth", "ve_clear"}
          /\ a # q
          /\ i.purpose = "verify"
          /\ now >= i.expiry + 1)
         => /\ users' = users /\ authUsers' = authUsers
            /\ a.pc = "done" /\ ~ a.matched
            /\ ~ a.fault => (a.status = 400
                             /\ a.code = "Invalid or expired verification token")]_vars

\* the token is still stored, with a numeric expiry an hour in the past, and
\* its owner is unverified at the store and at the provider
C23_Witness ==
    \E r \in Reqs :
       LET q == reqs[r]
           i == issued[q.token] IN
       /\ q.op = "verifyEmail" /\ q.pc = "done" /\ q.calledStore
       /\ i.purpose = "verify" /\ now = i.expiry + 1
       /\ users[i.owner].emailVerificationToken = q.token
       /\ users[i.owner].emailVerificationExpires = NumberExpiry(i.expiry)
       /\ q.status = 400
       /\ ~ users[i.owner].emailVerified /\ ~ authUsers[i.owner].emailVerified

\* C24: the query step of resetPassword and of verifyEmail gives one and the
\* same response (status, message, no further body), read failures aside, to
\* a token no profile stores and to a token a profile stores with an expiry
\* that has passed.
C24_NoExpiryOracle ==
    [][\A r \in Reqs :
         LET q == reqs[r]
             a == reqs'[r]
             reset == q.pc = "rp_query"
             holders == {d \in Users :
                           /\ users[d].exists
                           /\ q.token = IF reset THEN users[d].resetToken
                                        ELSE users[d].emailVerificationToken}
             expiry(d) == IF reset THEN users[d].resetTokenExpiry
                          ELSE users[d].emailVerificationExpires
             unknown == holders = {}
             expired == holders # {} /\ \A d \in holders : expiry(d).v <= now IN
         (/\ q.pc \in {"rp_query", "ve_query"}
          /\ a # q /\ ~ a.fault
          /\ unknown \/ expired)
         => /\ a.pc = "done" /\ a.status = 400 /\ a.payload = ""
            /\ a.code = IF reset THEN "Invalid or expired token"
                        ELSE "Invalid or expired verification token"]_vars

\* a reset token that is still stored, past its expiry, has been answered as
\* an unknown one is
C24_Witness ==
    \E r \in Reqs, d \in Users :
       LET q == reqs[r] IN
       /\ q.op = "resetPassword" /\ q.pc = "done" /\ q.calledStore /\ ~ q.fault
       /\ users[d].exists /\ users[d].resetToken = q.token
       /\ users[d].resetTokenExpiry.kind = "number"
       /\ users[d].resetTokenExpiry.v <= now
       /\ q.status = 400 /\ q.code = "Invalid or expired token" /\ q.payload = ""

\* C25: the status of a profile changes only from active, and only to
\* inactive, suspended or deleted.
C25_StatusOnlyLeavesActive ==
    [][\A d \in Users :
         (users[d].exists /\ users'[d].exists /\ users'[d].status # users[d].status)
         => /\ users[d].status = "active"
            /\ users'[d].status \in {"inactive", "suspended", "deleted"}]_vars

C27_ResetPasswordContract ==
    \A r \in Reqs :
       LET q == reqs[r] IN
       (q.pc = "done" /\ q.op = "resetPassword" /\ q.bodyPassword = "" /\ ~ q.fault)
       => /\ q.status \in {200, 400}
          /\ q.status = 200
             => (q.effect /\ authUsers[q.uid].password = q.password)
          /\ (q.token # 0 /\ q.password # "" /\ ResetMatches(q.token, now) # {})
             => q.status = 200
          /\ (q.token = 0 \/ q.password = "" \/ ~ q.matched) => q.status = 400

C29_ExpiryIsIssueTimePlusTTL ==
    [][\A d \in Users :
         /\ (users'[d].emailVerificationToken # 0
             /\ users'[d].emailVerificationToken # users[d].emailVerificationToken)
            => /\ users'[d].emailVerificationExpires.kind \in {"number", "timestamp"}
               /\ users'[d].emailVerificationExpires.v = now + VerifyTTL
         /\ (users'[d].resetToken # 0 /\ users'[d].resetToken # users[d].resetToken)
            => /\ users'[d].resetTokenExpiry.kind \in {"number", "timestamp"}
               /\ users'[d].resetTokenExpiry.v = now + ResetTTL]_vars

\* a profile created at hour 0 that asked for a reset at a later hour holds
\* both tokens with their expiries
C29_Witness ==
    \E d \in Users :
       /\ now > 0
       /\ users[d].emailVerificationToken # 0
       /\ users[d].emailVerificationExpires.v = VerifyTTL
       /\ users[d].resetToken # 0
       /\ users[d].resetTokenExpiry.v = now + ResetTTL

\* C30: on the admin routes the chain is isAuthenticated, isAdmin, handler,
\* and it stops at the first denial: a request that is inside an admin
\* handler, or has changed something through one, has a verified token and a
\* principal resolved from an active profile with role admin; a request
\* turned away by isAuthenticated has not reached isAdmin or the handler, and
\* one turned away by isAdmin has passed isAuthenticated and not reached the
\* handler.
C30_ChainOrder ==
    \A r \in Reqs :
       LET q == reqs[r]
           inHandler == q.pc \in {"cu_auth", "cu_save", "cu_claims", "gu_get",
                                  "gu_auth", "uu_auth", "du_get", "du_auth",
                                  "du_store"} IN
       q.route \in AdminRoutes
       => /\ (inHandler \/ q.effect \/ q.calledMail)
             => /\ q.cred = "valid" /\ q.nextCalled /\ q.user # NoUser
                /\ q.user.status = "active" /\ q.user.role = "admin"
          /\ (q.pc = "done" /\ ~ q.nextCalled)
             => (q.user = NoUser /\ ~ q.effect /\ q.code # "Acceso denegado")
          /\ (q.pc = "done" /\ q.code = "Acceso denegado")
             => /\ q.nextCalled /\ q.user # NoUser /\ q.user.role # "admin"
                /\ q.status = 403 /\ ~ q.effect

\* an admin is inside deleteUser, past the provider delete, while the
\* profile of a patient exists
C30_Witness ==
    \E r \in Reqs :
       LET q == reqs[r] IN
       /\ q.route = "deleteUser" /\ q.pc = "du_store" /\ q.effect
       /\ q.nextCalled /\ q.user.role = "admin"
       /\ \E d \in Users : users[d].exists /\ users[d].role = "patient"

\* C31: getAllUsers answers 200 only when every per-profile lookup has
\* settled, and its response lists exactly the profiles the search returned,
\* in the order of the search, each enriched exactly when its own lookup
\* resolved.
C31_ListKeepsEveryProfile ==
    \A r \in Reqs :
       LET q == reqs[r] IN
       (q.pc = "done" /\ q.route = "getAllUsers" /\ q.status = 200)
       => /\ \A i \in 1..Len(q.listed) : q.lookups[i] \in {"ok", "failed"}
          /\ Len(q.body) = Len(q.listed)
          /\ \A i \in 1..Len(q.listed) :
                /\ q.body[i].id = q.listed[i]
                /\ q.body[i].enriched <=> q.lookups[i] = "ok"

\* two profiles were listed; the lookup of the first failed and the lookup
\* of the second resolved
C31_Witness ==
    \E r \in Reqs :
       LET q == reqs[r] IN
       /\ q.pc = "done" /\ q.route = "getAllUsers" /\ q.status = 200
       /\ Len(q.listed) >= 2
       /\ q.lookups[1] = "failed" /\ q.lookups[2] = "ok"
       /\ Len(q.body) = Len(q.listed)

C33_NonAdminLeavesRoleAndStatus ==
    [][\A r \in Reqs :
         (/\ reqs'[r] # reqs[r]
          /\ reqs[r].nextCalled
          /\ ~ ("role" \in DOMAIN reqs[r].user /\ reqs[r].user.role = "admin"))
         => \A d \in Users :
               (users[d].exists /\ users'[d].exists)
               => /\ users'[d].role = users[d].role
                  /\ users'[d].status = users[d].status]_vars

\* C34: the provider update of resetPassword and of verifyEmail is applied
\* to the identity whose id is the id of the profile that holds the matched
\* token, and changes no other identity, provider outages aside.
C34_UpdateHitsTokenOwner ==
    [][\A r \in Reqs :
         LET q == reqs[r]
             a == reqs'[r] IN
         (/\ q.pc \in {"rp_auth", "ve_auth"} /\ a # q /\ ~ a.fault
          /\ authUsers[q.doc].exists)
         => /\ a.effect
            /\ q.pc = "rp_auth" => authUsers'[q.doc].password = q.password
            /\ q.pc = "ve_auth" => authUsers'[q.doc].emailVerified
            /\ \A u \in Users \ {q.doc} : authUsers'[u] = authUsers[u]]_vars

C36_TokenAndExpiryTogether ==
    \A d \in Users :
       users[d].exists
       => /\ users[d].emailVerificationToken = 0
             <=> users[d].emailVerificationExpires = NoExpiry
          /\ users[d].resetToken = 0 <=> users[d].resetTokenExpiry = NoExpiry

\* a reset has completed and nulled its pair, while some profile still holds
\* a verification pair
C36_Witness ==
    /\ \E r \in Reqs :
          LET q == reqs[r] IN
          /\ q.pc = "done" /\ q.op = "resetPassword" /\ q.status = 200
          /\ users[q.doc].resetToken = 0
          /\ users[q.doc].resetTokenExpiry = NoExpiry
    /\ \E d \in Users : users[d].exists /\ users[d].emailVerificationToken # 0

\* C37: when createUser answers 201 the identity exists and the profile of
\* the same id exists with status active, emailVerified false and a
\* verification token that has not expired; when it answers an error after
\* it created the identity, a profile exists for that identity.
C37_CreateAllOrNothing ==
    [][\A r \in Reqs :
         LET q == reqs[r]
             a == reqs'[r] IN
         (q.route = "createUser" /\ q.pc \in {"cu_auth", "cu_save", "cu_claims"}
          /\ a.pc = "done")
         => /\ a.status = 201
               => /\ authUsers'[q.doc].exists
                  /\ users'[q.doc].exists
                  /\ users'[q.doc].status = "active"
                  /\ ~ users'[q.doc].emailVerified
                  /\ users'[q.doc].emailVerificationToken # 0
                  /\ users'[q.doc].emailVerificationExpires.kind # "null"
                  /\ users'[q.doc].emailVerificationExpires.v > now
            /\ (a.status # 201 /\ q.pc \in {"cu_save", "cu_claims"})
               => users'[q.doc].exists]_vars

\* C38: deleteUser answers 404 and touches neither the provider nor the
\* store when the id has no profile; when the provider delete fails the
\* profile is left as it was; and no request ends having removed the
\* identity while the profile of that id still has status active.
C38_DeleteOutcomes ==
    [][\A r \in Reqs :
         LET q == reqs[r]
             a == reqs'[r] IN
         (q.route = "deleteUser" /\ a # q)
         => /\ (q.pc = "du_get" /\ ~ users[q.target].exists /\ ~ a.fault)
               => /\ a.pc = "done" /\ a.status = 404
                  /\ authUsers' = authUsers /\ users' = users
            /\ (q.pc = "du_auth" /\ a.pc = "done")
               => (authUsers' = authUsers /\ users' = users)
            /\ (a.pc = "done" /\ a.effect)
               => users'[q.target].status # "active"]_vars
====
